---- MODULE Spec2Model ----
(***************************************************************************)
(* Model of the turborepo-projects-version action.                         *)
(*                                                                         *)
(*   run -> getProjects -> getTurboPackages -> getTurboVersion             *)
(*                                          -> ensureTurboCache            *)
(*                                          -> npx turbo ls --output=json  *)
(*                      -> for each package: getPackageInfo + grouping     *)
(*       -> core.setOutput('projects', ...) or core.setFailed(...)         *)
(*                                                                         *)
(* JavaScript values are represented as follows.                           *)
(*   - an optional string (string | undefined) is a sequence of length at  *)
(*     most one: << >> is undefined, <<s>> is the string s;                *)
(*   - a package name is a sequence of one-character strings, so that the  *)
(*     identifier normalization can be computed character by character;    *)
(*   - an error message is the sequence of the parts its template joins;   *)
(*   - the `build` field is a tagged record (undefined, string, array);    *)
(*   - the plain object `result` is the sequence of its own properties in  *)
(*     creation order, read through the JavaScript rules for property      *)
(*     lookup (prototype chain) and property enumeration order.            *)
(***************************************************************************)
EXTENDS Naturals, Sequences, FiniteSets

VARIABLES
    pc,            \* where the run is
    platform,      \* process.platform
    arch,          \* process.arch
    packageJson,   \* getTurboVersion: the root manifest as read
    turboVersion,  \* getTurboPackages: the resolved version
    calls,         \* the calls made to the cache service and to exec, in order
    warnings,      \* the messages given to core.warning, in order
    output,        \* getTurboPackages: what getExecOutput resolved to
    packages,      \* getProjects: the items getTurboPackages returned
    idx,           \* getProjects: the position of the loop in packages
    disk,          \* the package manifests read so far, by path
    result,        \* getProjects: the object under construction
    outputs,       \* the values given to core.setOutput('projects', ..)
    failed,        \* the messages given to core.setFailed
    normIn,        \* a package name
    normOut        \* its identifier, then the identifier of the identifier

vars == <<pc, platform, arch, packageJson, turboVersion, calls, warnings, output,
          packages, idx, disk, result, outputs, failed, normIn, normOut>>

pipelineVars == <<pc, platform, arch, packageJson, turboVersion, calls, warnings,
                  output, packages, idx, disk, result, outputs, failed>>

normVars == <<normIn, normOut>>

(***************************************************************************)
(* Bounds of the model.                                                    *)
(***************************************************************************)
\* longest list of packages the discovery tool reports
MaxPkgs == 2
\* longest subprocess stdout, in tokens
MaxOut == 3
\* longest package name given to the identifier normalization
MaxLen == 4

\* all sequences over S of length at most n
RECURSIVE SeqsUpTo(_, _)
SeqsUpTo(S, n) ==
    IF n = 0 THEN {<<>>}
    ELSE LET shorter == SeqsUpTo(S, n - 1)
         IN  shorter \cup {Append(s, x) : s \in {t \in shorter : Len(t) = n - 1}, x \in S}

\* JavaScript truthiness of a string | undefined
Truthy(opt) == opt # <<>> /\ opt[1] # ""

\* JavaScript a || b
OrElse(a, b) == IF Truthy(a) THEN a ELSE b

\* `needle` occurs in the message whose parts are `msg`
Contains(msg, needle) == needle = "" \/ \E i \in 1..Len(msg) : msg[i] = needle

(***************************************************************************)
(* Error messages.                                                         *)
(***************************************************************************)
ErrRootManifest == <<"Failed to fetch package.json in repo root folder">>
ErrNotInstalled == <<"Repo does not have Turborepo installed">>
ErrExit(stderr) == <<"Failed to get turbo packages: ", stderr>>
ErrNotJson == <<"Turbo output is not valid JSON">>
ErrRetrieve == <<"Failed to retrieve turbo packages">>
ErrPackageInfo(path) == <<"Failed to retrieve package info: ", path, "/package.json">>
\* errors raised by the runtime or by a library, not by this program
ErrSyntax == <<"SyntaxError">>
ErrType == <<"TypeError">>
ErrExec == <<"exec failed">>

\* getProjects' catch: the error is rethrown with a prefix
GetProjectsCatch(err) == <<"Analysis failed: ">> \o err

\* run's catch: the message handed to core.setFailed
RunCatch(err) == <<"Action failed: ">> \o err

(***************************************************************************)
(* getTurboVersion                                                         *)
(***************************************************************************)
TurboEntries == {<<>>, <<"">>, <<"2.5.8">>, <<"1.0.0">>}

NotRead == [kind |-> "unread", dev |-> <<>>, dep |-> <<>>]

RootManifests ==
    {[kind |-> "missing", dev |-> <<>>, dep |-> <<>>],
     [kind |-> "malformed", dev |-> <<>>, dep |-> <<>>]}
    \cup [kind : {"object"}, dev : TurboEntries, dep : TurboEntries]

GetTurboVersionNoExistsCheck(root) ==
    CASE root.kind = "object" ->
            [threw |-> FALSE, value |-> OrElse(root.dev, root.dep), err |-> <<>>]
      [] OTHER -> [threw |-> TRUE, value |-> <<>>, err |-> ErrRootManifest]

\* the value returned, or the error thrown
GetTurboVersion(root) ==
    CASE root.kind = "missing" -> [threw |-> FALSE, value |-> <<>>, err |-> <<>>]
      [] root.kind = "malformed" -> [threw |-> TRUE, value |-> <<>>, err |-> ErrRootManifest]
      [] OTHER -> [threw |-> FALSE, value |-> OrElse(root.dev, root.dep), err |-> <<>>]

(***************************************************************************)
(* ensureTurboCache                                                        *)
(***************************************************************************)
Platforms == {"linux", "darwin"}
Archs == {"x64"}

CacheKey(version) == <<"npx-turbo-", version, "-", platform, "-", arch>>

ProbeArgs(version) == <<"npx", "turbo@", version, "--version">>
LsArgs(version) == <<"npx", "turbo@", version, "ls", "--output=json">>

Call(op, arg, outcome) == [op |-> op, arg |-> arg, outcome |-> outcome]

RestoreOutcomes == {"hit", "miss", "throws"}
ProbeOutcomes == {"exit0", "exit1", "throws"}
SaveOutcomes == {"ok", "throws"}

\* restoreCache inside its try/catch: where control goes next, what is logged
TryRestoreMissingCatch(o) ==
    CASE o = "hit" -> [raised |-> FALSE, next |-> "scan", warn |-> <<>>]
      [] o = "miss" -> [raised |-> FALSE, next |-> "probe", warn |-> <<>>]
      [] OTHER -> [raised |-> TRUE, next |-> "done", warn |-> <<>>]

TryRestoreIgnoreHit(o) ==
    CASE o = "throws" -> [raised |-> FALSE, next |-> "probe", warn |-> <<"Cache restore failed">>]
      [] OTHER -> [raised |-> FALSE, next |-> "probe", warn |-> <<>>]

TryRestore(o) ==
    CASE o = "hit" -> [raised |-> FALSE, next |-> "scan", warn |-> <<>>]
      [] o = "miss" -> [raised |-> FALSE, next |-> "probe", warn |-> <<>>]
      [] OTHER -> [raised |-> FALSE, next |-> "probe", warn |-> <<"Cache restore failed">>]

\* the version probe inside its try/catch
TryProbe(o) ==
    CASE o = "exit0" -> [raised |-> FALSE, next |-> "save", warn |-> <<>>]
      [] o = "exit1" -> [raised |-> FALSE, next |-> "scan", warn |-> <<>>]
      [] OTHER -> [raised |-> FALSE, next |-> "scan", warn |-> <<"Failed to pre-download turbo">>]

\* saveCache inside its try/catch
TrySave(o) ==
    CASE o = "ok" -> [raised |-> FALSE, next |-> "scan", warn |-> <<>>]
      [] OTHER -> [raised |-> FALSE, next |-> "scan", warn |-> <<"Failed to save cache">>]

(***************************************************************************)
(* getTurboPackages: the subprocess and its output                         *)
(*                                                                         *)
(* stdout is a sequence of tokens:                                         *)
(*   "x"  a piece of text without braces (a banner line),                  *)
(*   "{"  an opening brace,   "}"  a closing brace,                        *)
(*   "J"  the text of one complete, well-formed listing document           *)
(*        {"packageManager":..,"packages":{"count":..,"items":[..]}},      *)
(*        which starts with an opening and ends with a closing brace.      *)
(***************************************************************************)
Tokens == {"x", "{", "}", "J"}
Stderrs == {"", "boom"}

HasOpen(tok) == tok \in {"{", "J"}
HasClose(tok) == tok \in {"}", "J"}

NoMatch == [found |-> FALSE, text |-> <<>>]

\* stdout.match(/\{[\s\S]*\}/): from the first "{" to the last "}" after it
RegexMatch(text) ==
    LET opens == {i \in 1..Len(text) : HasOpen(text[i])}
        closes == {i \in 1..Len(text) : HasClose(text[i])}
    IN  IF opens = {} \/ closes = {} THEN NoMatch
        ELSE LET first == CHOOSE i \in opens : \A j \in opens : i <= j
                 last == CHOOSE i \in closes : \A j \in closes : j <= i
             IN  IF first < last \/ (first = last /\ text[first] = "J")
                 THEN [found |-> TRUE, text |-> SubSeq(text, first, last)]
                 ELSE NoMatch

\* JSON.parse of the matched text, and whether result.packages.items exists
JSONParse(text) ==
    CASE text = <<"J">> -> [ok |-> TRUE, hasItems |-> TRUE]
      [] text = <<"{", "}">> -> [ok |-> TRUE, hasItems |-> FALSE]
      [] OTHER -> [ok |-> FALSE, hasItems |-> FALSE]

\* what getExecOutput can do for `turbo ls`
LsOutcomes ==
    {[kind |-> "throws", exitCode |-> 1, stdout |-> <<>>, stderr |-> ""]}
    \cup [kind : {"exit"}, exitCode : {1}, stdout : {<<>>}, stderr : Stderrs]
    \cup [kind : {"exit"}, exitCode : {0}, stdout : SeqsUpTo(Tokens, MaxOut), stderr : {""}]

NoOutput == [kind |-> "none", exitCode |-> 0, stdout |-> <<>>, stderr |-> ""]

\* the body of getTurboPackages' try block: the error it throws, << >> if none
LsTryBody(o) ==
    IF o.kind = "throws" THEN ErrExec
    ELSE IF o.exitCode # 0 THEN ErrExit(o.stderr)
    ELSE LET json == RegexMatch(o.stdout)
         IN  IF ~json.found THEN ErrNotJson
             ELSE LET parsed == JSONParse(json.text)
                  IN  IF ~parsed.ok THEN ErrSyntax
                      ELSE IF ~parsed.hasItems THEN ErrType
                      ELSE <<>>

\* getTurboPackages' catch: whatever was thrown is replaced
LsCatch(err) == ErrRetrieve

\* the error getTurboPackages throws for a subprocess outcome, << >> if none
LsError(o) ==
    LET err == LsTryBody(o) IN IF err = <<>> THEN <<>> ELSE LsCatch(err)

Items == {[name |-> "@x/a", path |-> "./a"], [name |-> "@x/b", path |-> "./b"]}
Paths == {it.path : it \in Items}

(***************************************************************************)
(* getPackageInfo and the identifier normalization                         *)
(***************************************************************************)
WordChars == {"a", "b", "x", "A", "X", "0", "1", "_"}
IsWord(c) == c \in WordChars

ToLower(c) == CASE c = "A" -> "a" [] c = "X" -> "x" [] OTHER -> c

\* s.replace(/\W+/g, '-'): every maximal run of non-word characters
RECURSIVE ReplaceNonWordRuns(_)
ReplaceNonWordRuns(s) ==
    IF s = <<>> THEN <<>>
    ELSE IF IsWord(Head(s)) THEN <<Head(s)>> \o ReplaceNonWordRuns(Tail(s))
    ELSE IF Len(s) > 1 /\ ~IsWord(s[2]) THEN ReplaceNonWordRuns(Tail(s))
    ELSE <<"-">> \o ReplaceNonWordRuns(Tail(s))

\* s.toLowerCase()
ToLowerCase(s) == [i \in 1..Len(s) |-> ToLower(s[i])]

RECURSIVE StripLeading(_)
StripLeading(s) ==
    IF s # <<>> /\ Head(s) = "-" THEN StripLeading(Tail(s)) ELSE s

RECURSIVE StripTrailing(_)
StripTrailing(s) ==
    IF s # <<>> /\ s[Len(s)] = "-" THEN StripTrailing(SubSeq(s, 1, Len(s) - 1)) ELSE s

\* s.replace(/^-+|-+$/g, '')
StripDashes(s) == StripTrailing(StripLeading(s))

NormalizeStripFirst(s) == ToLowerCase(ReplaceNonWordRuns(StripDashes(s)))

\* the identifier of a package name
Normalize(s) == StripDashes(ToLowerCase(ReplaceNonWordRuns(s)))

Labels == {"npm", "2", "10", "constructor"}

Undefined == [tag |-> "undefined", labels |-> <<>>]
Str(s) == [tag |-> "string", labels |-> <<s>>]
Arr(a) == [tag |-> "array", labels |-> a]

\* values of the `build` field: absent, a string, a list of at most two labels
Builds ==
    {Undefined, Str(""), Arr(<<>>)}
    \cup {Str(l) : l \in Labels}
    \cup {Arr(<<l>>) : l \in Labels}
    \cup {Arr(<<l, m>>) : l \in Labels, m \in Labels}

Names == {<<>>, <<<<"@", "X", "/", "a">>>>}
Versions == {<<"1.0.0">>}

Unread == [kind |-> "unread", name |-> <<>>, version |-> <<>>, build |-> Undefined]

Manifests ==
    {[kind |-> "missing", name |-> <<>>, version |-> <<>>, build |-> Undefined],
     [kind |-> "malformed", name |-> <<>>, version |-> <<>>, build |-> Undefined]}
    \cup [kind : {"object"}, name : Names, version : Versions, build : Builds]

NoInfo == [path |-> "", name |-> <<>>, version |-> <<>>, identifier |-> <<>>,
           build |-> Undefined]

\* what getPackageInfo returns or throws for the manifest found at `path`
GetPackageInfo(path, m) ==
    CASE m.kind = "missing" -> [kind |-> "undefined", info |-> NoInfo, err |-> <<>>]
      [] m.kind = "malformed" ->
            [kind |-> "threw", info |-> NoInfo, err |-> ErrPackageInfo(path)]
      [] OTHER ->
            [kind |-> "info", err |-> <<>>,
             info |-> [path |-> path, name |-> m.name, version |-> m.version,
                       identifier |-> IF m.name = <<>> THEN <<>>
                                      ELSE <<Normalize(m.name[1])>>,
                       build |-> m.build]]

(***************************************************************************)
(* The plain object `result` of getProjects                                *)
(***************************************************************************)
\* properties every plain object inherits from Object.prototype
PrototypeProps == {"constructor", "toString", "valueOf", "hasOwnProperty", "__proto__"}

\* keys that are canonical array indices, and their numeric value
IsIntegerKey(k) == k \in {"2", "10"}
IndexValue(k) == CASE k = "2" -> 2 [] k = "10" -> 10 [] OTHER -> 0

HasOwn(obj, k) == \E i \in 1..Len(obj) : obj[i].key = k
OwnIndex(obj, k) == CHOOSE i \in 1..Len(obj) : obj[i].key = k

\* the own property k, << >> when the object has none
OwnValue(obj, k) == IF HasOwn(obj, k) THEN obj[OwnIndex(obj, k)].value ELSE <<>>

RECURSIVE AscendingKeys(_)
AscendingKeys(S) ==
    IF S = {} THEN <<>>
    ELSE LET least == CHOOSE k \in S : \A other \in S : IndexValue(k) <= IndexValue(other)
         IN  <<least>> \o AscendingKeys(S \ {least})

CreationOrderKeys(obj) == [i \in 1..Len(obj) |-> obj[i].key]

IsStringKey(k) == ~IsIntegerKey(k)

OwnKeysCreationOrder(obj) == CreationOrderKeys(obj)

\* the own keys as Object.keys, Object.entries and JSON.stringify list them:
\* integer keys in ascending numeric order, then the others in creation order
OwnKeys(obj) ==
    AscendingKeys({obj[i].key : i \in {j \in 1..Len(obj) : IsIntegerKey(obj[j].key)}})
    \o SelectSeq(CreationOrderKeys(obj), IsStringKey)

\* JSON.stringify(result): the groups in enumeration order
JSONStringify(obj) ==
    LET keys == OwnKeys(obj)
    IN  [i \in 1..Len(keys) |-> [key |-> keys[i], value |-> OwnValue(obj, keys[i])]]

\* if (!result[build]) result[build] = []; result[build].push(packageInfo)
AddToGroup(obj, label, info) ==
    IF HasOwn(obj, label)
    THEN [threw |-> FALSE,
          obj |-> [obj EXCEPT ![OwnIndex(obj, label)].value = Append(@, info)]]
    ELSE IF label \in PrototypeProps
    THEN [threw |-> TRUE, obj |-> obj]
    ELSE [threw |-> FALSE, obj |-> Append(obj, [key |-> label, value |-> <<info>>])]

\* for (const build of packageInfo.build) { ... }
RECURSIVE AddToGroups(_, _, _)
AddToGroups(obj, labels, info) ==
    IF labels = <<>> THEN [threw |-> FALSE, obj |-> obj]
    ELSE LET first == AddToGroup(obj, Head(labels), info)
         IN  IF first.threw THEN first ELSE AddToGroups(first.obj, Tail(labels), info)

HasBuildAlways(info) == TRUE

\* if (packageInfo.build)
HasBuild(info) ==
    info.build.tag = "array" \/ (info.build.tag = "string" /\ info.build.labels[1] # "")

\* the key a value is converted to when it indexes an object
PropertyKeys(build) == IF build.tag = "undefined" THEN <<"undefined">> ELSE build.labels

\* one iteration of the loop body after getPackageInfo returned `info`
GroupPackage(obj, info) ==
    IF HasBuild(info) THEN AddToGroups(obj, PropertyKeys(info.build), info)
    ELSE [threw |-> FALSE, obj |-> obj]

(***************************************************************************)
(* The run                                                                 *)
(***************************************************************************)
Init ==
    /\ pc = "start"
    /\ platform \in Platforms
    /\ arch \in Archs
    /\ packageJson = NotRead
    /\ turboVersion = <<>>
    /\ calls = <<>>
    /\ warnings = <<>>
    /\ output = NoOutput
    /\ packages = <<>>
    /\ idx = 1
    /\ disk = [p \in Paths |-> Unread]
    /\ result = <<>>
    /\ outputs = <<>>
    /\ failed = <<>>
    /\ normIn = <<>>
    /\ normOut = <<>>

FailUnreported(err) ==
    /\ failed' = failed
    /\ pc' = "done"

\* an error leaves getProjects: rethrown by its catch, reported by run's catch
Fail(err) ==
    /\ failed' = Append(failed, RunCatch(GetProjectsCatch(err)))
    /\ pc' = "done"

\* getTurboVersion reads the root package.json
ReadRootManifest ==
    /\ pc = "start"
    /\ \E root \in RootManifests : packageJson' = root
    /\ pc' = "resolve"
    /\ UNCHANGED <<platform, arch, turboVersion, calls, warnings, output, packages,
                   idx, disk, result, outputs, failed, normVars>>

\* the rest of getTurboVersion and the check of its result in getTurboPackages
ResolveVersion ==
    /\ pc = "resolve"
    /\ LET v == GetTurboVersion(packageJson)
       IN  IF v.threw THEN Fail(v.err) /\ UNCHANGED turboVersion
           ELSE IF ~Truthy(v.value) THEN Fail(ErrNotInstalled) /\ UNCHANGED turboVersion
           ELSE /\ turboVersion' = v.value
                /\ pc' = "restore"
                /\ UNCHANGED failed
    /\ packageJson' = NotRead
    /\ UNCHANGED <<platform, arch, calls, warnings, output, packages, idx, disk,
                   result, outputs, normVars>>

\* a step of ensureTurboCache that called `call` and came back as `r`
CacheStep(call, r) ==
    /\ calls' = Append(calls, call)
    /\ warnings' = warnings \o r.warn
    /\ IF r.raised THEN Fail(ErrExec)
       ELSE pc' = r.next /\ UNCHANGED failed
    /\ UNCHANGED <<platform, arch, packageJson, turboVersion, output, packages, idx,
                   disk, result, outputs, normVars>>

RestoreCache ==
    /\ pc = "restore"
    /\ \E o \in RestoreOutcomes :
          CacheStep(Call("restoreCache", CacheKey(turboVersion[1]), o), TryRestore(o))

PreDownload ==
    /\ pc = "probe"
    /\ \E o \in ProbeOutcomes :
          CacheStep(Call("exec", ProbeArgs(turboVersion[1]), o), TryProbe(o))

SaveCache ==
    /\ pc = "save"
    /\ \E o \in SaveOutcomes :
          CacheStep(Call("saveCache", CacheKey(turboVersion[1]), o), TrySave(o))

\* npx turbo@<version> ls --output=json is started and comes back
RunTurboLs ==
    /\ pc = "scan"
    /\ \E o \in LsOutcomes :
          /\ output' = o
          /\ calls' = Append(calls, Call("exec", LsArgs(turboVersion[1]), o.kind))
    /\ pc' = "parse"
    /\ UNCHANGED <<platform, arch, packageJson, turboVersion, warnings, packages, idx, disk,
                   result, outputs, failed, normVars>>

\* the rest of getTurboPackages: exit code, match, parse, return of the items
ParseOutput ==
    /\ pc = "parse"
    /\ LET err == LsError(output)
       IN  IF err # <<>> THEN Fail(err) /\ UNCHANGED packages
           ELSE /\ \E items \in SeqsUpTo(Items, MaxPkgs) : packages' = items
                /\ pc' = "loop"
                /\ UNCHANGED failed
    /\ output' = NoOutput
    /\ UNCHANGED <<platform, arch, packageJson, turboVersion, calls, warnings, idx, disk,
                   result, outputs, normVars>>

\* one iteration of getProjects' loop over the packages
GroupStep ==
    /\ pc = "loop"
    /\ idx <= Len(packages)
    /\ LET path == packages[idx].path
       IN  \E m \in (IF disk[path] = Unread THEN Manifests ELSE {disk[path]}) :
              LET got == GetPackageInfo(path, m)
                  grouped == GroupPackage(result, got.info)
              IN  /\ disk' = [disk EXCEPT ![path] = m]
                  /\ CASE got.kind = "threw" ->
                            Fail(got.err) /\ UNCHANGED <<idx, result, warnings>>
                       [] got.kind = "undefined" ->
                            /\ warnings' = Append(warnings, "No package.json found")
                            /\ idx' = idx + 1
                            /\ UNCHANGED <<pc, result, failed>>
                       [] OTHER ->
                            /\ result' = grouped.obj
                            /\ IF grouped.threw THEN Fail(ErrType) /\ UNCHANGED idx
                               ELSE idx' = idx + 1 /\ UNCHANGED <<pc, failed>>
                            /\ UNCHANGED warnings
    /\ UNCHANGED <<platform, arch, packageJson, turboVersion, calls, output, packages,
                   outputs, normVars>>

\* getProjects returns and run sets the `projects` output
Finish ==
    /\ pc = "loop"
    /\ idx > Len(packages)
    /\ outputs' = Append(outputs, JSONStringify(result))
    /\ pc' = "done"
    /\ UNCHANGED <<platform, arch, packageJson, turboVersion, calls, warnings, output,
                   packages, idx, disk, result, failed, normVars>>

Next ==
    \/ ReadRootManifest
    \/ ResolveVersion
    \/ RestoreCache
    \/ PreDownload
    \/ SaveCache
    \/ RunTurboLs
    \/ ParseOutput
    \/ GroupStep
    \/ Finish

Spec == Init /\ [][Next]_vars

(***************************************************************************)
(* The identifier normalization on its own                                 *)
(***************************************************************************)
NormChars == {"a", "A", "1", "_", "-", "@"}

InitNormalize ==
    /\ pc = "start"
    /\ platform = "linux"
    /\ arch = "x64"
    /\ packageJson = NotRead
    /\ turboVersion = <<>>
    /\ calls = <<>>
    /\ warnings = <<>>
    /\ output = NoOutput
    /\ packages = <<>>
    /\ idx = 1
    /\ disk = [p \in Paths |-> Unread]
    /\ result = <<>>
    /\ outputs = <<>>
    /\ failed = <<>>
    /\ normIn \in SeqsUpTo(NormChars, MaxLen)
    /\ normOut = <<>>

\* the identifier of the name
NormalizeName ==
    /\ normOut = <<>>
    /\ normOut' = <<Normalize(normIn)>>
    /\ UNCHANGED <<normIn, pipelineVars>>

\* the identifier of the identifier
NormalizeAgain ==
    /\ Len(normOut) = 1
    /\ normOut' = Append(normOut, Normalize(normOut[1]))
    /\ UNCHANGED <<normIn, pipelineVars>>

NextNormalize == NormalizeName \/ NormalizeAgain

SpecNormalize == InitNormalize /\ [][NextNormalize]_vars

(***************************************************************************)
(* Properties                                                              *)
(***************************************************************************)
IsLs(c) == c.op = "exec" /\ "ls" \in {c.arg[i] : i \in 1..Len(c.arg)}
IsProbe(c) == c.op = "exec" /\ ~IsLs(c)
Positions(P(_)) == {i \in 1..Len(calls) : P(calls[i])}
IsRestore(c) == c.op = "restoreCache"
IsSave(c) == c.op = "saveCache"

\* C1: when `turbo ls --output=json` comes back with a non-zero exit code, the
\* run fails and the message given to core.setFailed contains the stderr of
\* the subprocess.
C1_StderrReported ==
    [][(pc = "parse" /\ output.kind = "exit" /\ output.exitCode # 0)
          => (/\ Len(failed') = 1
              /\ outputs' = <<>>
              /\ Contains(failed'[1], output.stderr))]_vars

\* C2: when the subprocess exits with code zero and its stdout holds no
\* { ... } substring, the run fails with "Turbo output is not valid JSON",
\* not with the generic retrieval error.
C2_InvalidOutputError ==
    [][(/\ pc = "parse"
        /\ output.kind = "exit"
        /\ output.exitCode = 0
        /\ ~RegexMatch(output.stdout).found)
          => (/\ Len(failed') = 1
              /\ Contains(failed'[1], "Turbo output is not valid JSON")
              /\ ~Contains(failed'[1], "Failed to retrieve turbo packages"))]_vars

\* the root manifest is missing, or has no usable turbo entry
NoVersionCase ==
    /\ pc = "resolve"
    /\ \/ packageJson.kind = "missing"
       \/ packageJson.kind = "object" /\ ~Truthy(packageJson.dev) /\ ~Truthy(packageJson.dep)

C4_CacheNeverFails ==
    turboVersion # <<>> =>
        /\ (Positions(IsLs) = {} => (failed = <<>> /\ pc \in {"restore", "probe", "save", "scan"}))
        /\ (pc = "done" => Positions(IsLs) # {})

C4_Witness ==
    /\ Positions(IsLs) # {}
    /\ \E i \in Positions(IsRestore) : calls[i].outcome = "throws"
    /\ \E i \in Positions(IsSave) : calls[i].outcome = "throws"
    /\ warnings = <<"Cache restore failed", "Failed to save cache">>

\* C10: restoreCache is called once, first, with the key
\* npx-turbo-<version>-<platform>-<arch>; after a hit neither the probe nor
\* saveCache is called; otherwise the probe runs once, and saveCache is
\* called at most once, after the probe, with the key restoreCache was given;
\* `turbo ls` is started only when the cache step is over.
C10_CacheProtocol ==
    LET n == Len(calls)
        key == <<"npx-turbo-", turboVersion[1], "-", platform, "-", arch>>
    IN  /\ (turboVersion # <<>> /\ pc # "restore") => n >= 1
        /\ n >= 1 => (/\ IsRestore(calls[1])
                      /\ calls[1].arg = key
                      /\ Positions(IsRestore) = {1})
        /\ (n >= 1 /\ calls[1].outcome = "hit") =>
              (Positions(IsProbe) = {} /\ Positions(IsSave) = {})
        /\ (n >= 1 /\ calls[1].outcome # "hit" /\ pc # "probe") =>
              Positions(IsProbe) = {2}
        /\ Positions(IsProbe) \subseteq {2}
        /\ Positions(IsSave) \subseteq {3}
        /\ \A i \in Positions(IsSave) :
              IsProbe(calls[i - 1]) /\ calls[i].arg = calls[1].arg
        /\ \A i \in Positions(IsLs) :
              /\ i = n
              /\ pc \in {"parse", "loop", "done"}
              /\ \/ calls[1].outcome = "hit" /\ i = 2
                 \/ calls[1].outcome # "hit" /\ calls[2].outcome # "exit0" /\ i = 3
                 \/ calls[1].outcome # "hit" /\ calls[2].outcome = "exit0" /\ i = 4
        /\ pc \in {"parse", "loop"} => Positions(IsLs) # {}

C10_Witness ==
    /\ pc = "parse"
    /\ Len(calls) = 4
    /\ calls[1].outcome = "miss"
    /\ IsProbe(calls[2])
    /\ IsSave(calls[3])
    /\ calls[3].arg = calls[1].arg
    /\ IsLs(calls[4])

ManifestOf(k) == disk[packages[k].path]
InfoOf(k) == GetPackageInfo(packages[k].path, ManifestOf(k)).info

NonEmptyBuild(b) ==
    \/ b.tag = "string" /\ b.labels[1] # ""
    \/ b.tag = "array" /\ b.labels # <<>>

\* the labels package k carries, in the order its manifest lists them
LabelsOf(k) ==
    IF ManifestOf(k).kind = "object" /\ NonEmptyBuild(ManifestOf(k).build)
    THEN ManifestOf(k).build.labels
    ELSE <<>>

\* the projects some group of the emitted mapping holds
Emitted(out) ==
    UNION {{out[g].value[j] : j \in 1..Len(out[g].value)} : g \in 1..Len(out)}

\* C5: in a successful run every project of every group comes from a manifest
\* whose `build` field is present and not empty, and a discovered package
\* without a manifest or without a `build` field is in no group.
C5_Filtering ==
    outputs # <<>> =>
        LET out == outputs[1]
        IN  /\ \A info \in Emitted(out) :
                  /\ disk[info.path].kind = "object"
                  /\ info.build = disk[info.path].build
                  /\ NonEmptyBuild(disk[info.path].build)
            /\ \A k \in 1..Len(packages) :
                  (\/ ManifestOf(k).kind = "missing"
                   \/ ManifestOf(k).kind = "object" /\ ManifestOf(k).build.tag = "undefined")
                     => \A info \in Emitted(out) : info.path # packages[k].path

C5_Witness ==
    /\ outputs # <<>>
    /\ outputs[1] # <<>>
    /\ Emitted(outputs[1]) # {}
    /\ \E k \in 1..Len(packages) :
          /\ ManifestOf(k).kind = "object"
          /\ ManifestOf(k).build.tag = "undefined"
          /\ \A info \in Emitted(outputs[1]) : info.path # packages[k].path

\* C6: a package whose `build` lists N labels (any N different strings) is
\* appended by the loop to the group of each of them, the group being created
\* on first use, with the same ProjectInfo in each.
C6_FanOut ==
    [][(pc = "loop" /\ idx <= Len(packages))
          => LET path == packages[idx].path
                 m == disk'[path]
                 info == GetPackageInfo(path, m).info
                 labels == m.build.labels
             IN  (/\ m.kind = "object"
                  /\ m.build.tag = "array"
                  /\ Cardinality({labels[i] : i \in 1..Len(labels)}) = Len(labels))
                    => (/\ failed' = <<>>
                        /\ \A i \in 1..Len(labels) :
                              OwnValue(result', labels[i])
                                 = Append(OwnValue(result, labels[i]), info))]_vars

\* the labels met while iterating the packages, in that order
RECURSIVE EncounteredFrom(_)
EncounteredFrom(k) ==
    IF k > Len(packages) THEN <<>> ELSE LabelsOf(k) \o EncounteredFrom(k + 1)

\* s without the later occurrences of its elements
RECURSIVE FirstOccurrences(_)
FirstOccurrences(s) ==
    IF s = <<>> THEN <<>>
    ELSE LET init == SubSeq(s, 1, Len(s) - 1)
             last == s[Len(s)]
         IN  IF \E i \in 1..Len(init) : init[i] = last
             THEN FirstOccurrences(init)
             ELSE Append(FirstOccurrences(init), last)

\* the packages carrying label l, in discovery order, once per mention of l
RECURSIVE CarriersFrom(_, _)
CarriersFrom(k, l) ==
    IF k > Len(packages) THEN <<>>
    ELSE LET Is(x) == x = l
             mentions == SelectSeq(LabelsOf(k), Is)
         IN  [i \in 1..Len(mentions) |-> InfoOf(k)] \o CarriersFrom(k + 1, l)

EmittedKeys == [g \in 1..Len(outputs[1]) |-> outputs[1][g].key]

GroupsInDiscoveryOrder ==
    \A g \in 1..Len(outputs[1]) :
        outputs[1][g].value = CarriersFrom(1, outputs[1][g].key)

PositionIn(s, x) == CHOOSE i \in 1..Len(s) : s[i] = x

C8_OneReport ==
    /\ Len(outputs) + Len(failed) <= 1
    /\ (pc = "done") <=> (Len(outputs) + Len(failed) = 1)
    /\ (\E p \in Paths : disk[p].kind = "malformed") => (outputs = <<>> /\ Len(failed) = 1)
    /\ packageJson.kind = "malformed" => outputs = <<>>
    /\ (outputs # <<>> /\ \A k \in 1..Len(packages) : LabelsOf(k) = <<>>)
          => outputs = <<<<>>>>

C8_Witness ==
    /\ pc = "done"
    /\ failed = <<>>
    /\ outputs = <<<<>>>>
    /\ Len(packages) = 2
    /\ \E k \in 1..Len(packages) : ManifestOf(k).kind = "object"

\* C9: the identifier normalization is idempotent, and a name made of
\* non-word characters only (the empty name included) has the empty identifier.
C9_Idempotent ==
    /\ Len(normOut) = 2 => normOut[2] = normOut[1]
    /\ (Len(normOut) >= 1 /\ \A i \in 1..Len(normIn) : ~IsWord(normIn[i]))
          => normOut[1] = <<>>

C9_Witness ==
    /\ Len(normOut) = 2
    /\ normIn = <<"@", "A", "-", "_">>
    /\ normOut[1] = <<"a", "-", "_">>

====
